---- MODULE Spec2Model ----
(***************************************************************************)
(* Statify: Spotify streaming-history loader and metric aggregator.        *)
(*                                                                         *)
(*   src/processJsons.py    folder export: load, sort, combined CSV,       *)
(*                          one CSV per year                               *)
(*   src/streamlit_app.py   ZIP upload: load into a DataFrame, date-range  *)
(*                          filter, calculate_metrics                      *)
(*                                                                         *)
(* Modelling conventions                                                   *)
(*   - Python None / JSON null / a missing key (entry.get gives None for   *)
(*     all three) is the string None for text fields and the empty tuple   *)
(*     Absent for numeric and boolean fields; Some(v) is a present value.  *)
(*     pandas NaN in a numeric column is Absent as well.                   *)
(*   - A timestamp string is a record: form "none" (key missing), "empty"  *)
(*     (the string ""), "bad" (non-empty, not ISO-8601), "Z" (ISO with a   *)
(*     trailing Z) or "off" (ISO with an explicit numeric offset).  local  *)
(*     is the wall-clock reading written in the string, counted in slots   *)
(*     from the start of year 0, off the written offset in slots.          *)
(*   - A file name is a tuple of tokens, e.g.                              *)
(*     <<"Streaming_History_Audio_", "2020", ".json">>.                    *)
(*   - hours_played is the exact fraction ms_played / 3,600,000, kept as   *)
(*     [num, den].                                                         *)
(*   - A string that is split on separators (the label of the track        *)
(*     selector) is the tuple of its pieces and separators, e.g.           *)
(*     <<"Song", " - ", "Live">> for "Song - Live".                        *)
(*                                                                         *)
(* Specifications                                                          *)
(*   Spec       inputs covering every validity case of ts and ms_played    *)
(*              and of the source names                                    *)
(*   SpecOrder  inputs of valid events around a year boundary, with        *)
(*              offsets, equal instants and a day without events           *)
(*   SpecAgg    inputs of up to eleven (track, artist) groups with two,    *)
(*              three or four skipped plays each                           *)
(*   SpecTrack  inputs of a few plays of three tracks, two of them with a  *)
(*              name holding a separator of the selector's label; the      *)
(*              two select boxes of the dashboard are operated             *)
(***************************************************************************)
EXTENDS Integers, Sequences, FiniteSets, TLC

VARIABLES files,    \* the input: the sources found in the folder / the ZIP
          folder,   \* outcome of processJsons.py on the input
          app,      \* outcome of the last run of streamlit_app.main()
          panel     \* what show_dashboard drew in that run

vars == <<files, folder, app, panel>>

----------------------------------------------------------------------------
(* Bounds of the model                                                     *)

MaxSources == 2      \* sources per input
MaxEntries == 2      \* raw events per input, all sources together
MaxPlays == 3        \* the same, for the inputs of the ordering model
MaxTrackPlays == 4   \* the same, for the inputs of the select-box model
SlotsPerDay == 2     \* calendar of the model: clock readings per day
DaysPerMonth == 2
MonthsPerYear == 2
MaxDeviate == 1      \* aggregation inputs: groups departing from the default

SlotsPerMonth == SlotsPerDay * DaysPerMonth
SlotsPerYear == SlotsPerMonth * MonthsPerYear

----------------------------------------------------------------------------
(* Values                                                                  *)

None == "None"
Absent == << >>
Some(v) == <<v>>

SeqsUpTo(S, n) == UNION {[1..k -> S] : k \in 0..n}

NoTs == [form |-> "none", local |-> 0, off |-> 0]
EmptyTs == [form |-> "empty", local |-> 0, off |-> 0]
BadTs == [form |-> "bad", local |-> 0, off |-> 0]
Zulu(l) == [form |-> "Z", local |-> l, off |-> 0]
Offs(l, o) == [form |-> "off", local |-> l, off |-> o]

(* `not timestamp`: None and "" are falsy *)
Falsy(ts) == ts.form \in {"none", "empty"}

(* str.replace('Z', '+00:00') *)
ReplaceZ(ts) == IF ts.form = "Z" THEN [ts EXCEPT !.form = "off", !.off = 0] ELSE ts

(* datetime.fromisoformat / pd.to_datetime accept the explicit-offset form *)
Parseable(s) == s.form = "off"

(* the point in time a parsed datetime denotes, in slots since the epoch:
   datetimes compare by it *)
Instant(dt) == dt.local - dt.off

(* datetime.year, .dt.date, .dt.to_period('M'): components of the local
   reading, the offset is not applied *)
YearOf(dt) == dt.local \div SlotsPerYear
DateOf(dt) == dt.local \div SlotsPerDay
MonthOf(dt) == dt.local \div SlotsPerMonth

----------------------------------------------------------------------------
(* Source discovery                                                        *)

Marker == "Streaming_History_Audio_"
JsonExt == ".json"

(* 'Streaming_History_Audio_' in f and f.endswith('.json') *)
ZipMatches(name) ==
    /\ \E i \in 1..Len(name) : name[i] = Marker
    /\ Len(name) > 0 /\ name[Len(name)] = JsonExt

(* folder.glob('Streaming_History_Audio_*.json') *)
GlobMatches(name) ==
    /\ Len(name) >= 2
    /\ name[1] = Marker
    /\ name[Len(name)] = JsonExt

----------------------------------------------------------------------------
(* Record normalisation: the loop body shared by both load paths           *)

MsLimit == 3600000

(* `ms_played and ms_played > 3600000`: None and 0 are falsy *)
TooLong(ms) == ms # Absent /\ ms[1] # 0 /\ ms[1] > MsLimit

(* the filter without its duration test *)
Keeps_NoLimit(entry) == ~Falsy(entry.ts)

Keeps(entry) == ~Falsy(entry.ts) /\ ~TooLong(entry.ms_played)

(* the record with a missing duration defaulted to 0 *)
MakeRecord_ZeroMs(entry, source) ==
    [timestamp      |-> entry.ts,
     platform       |-> entry.platform,
     ms_played      |-> IF entry.ms_played = Absent THEN Some(0) ELSE entry.ms_played,
     track_name     |-> entry.master_metadata_track_name,
     artist         |-> entry.master_metadata_album_artist_name,
     album          |-> entry.master_metadata_album_album_name,
     spotify_uri    |-> entry.spotify_track_uri,
     skipped        |-> entry.skipped,
     shuffle        |-> entry.shuffle,
     offline        |-> entry.offline,
     incognito_mode |-> entry.incognito_mode,
     source_file    |-> source]

MakeRecord(entry, source) ==
    [timestamp      |-> entry.ts,
     platform       |-> entry.platform,
     ms_played      |-> entry.ms_played,
     track_name     |-> entry.master_metadata_track_name,
     artist         |-> entry.master_metadata_album_artist_name,
     album          |-> entry.master_metadata_album_album_name,
     spotify_uri    |-> entry.spotify_track_uri,
     skipped        |-> entry.skipped,
     shuffle        |-> entry.shuffle,
     offline        |-> entry.offline,
     incognito_mode |-> entry.incognito_mode,
     source_file    |-> source]

(* one record per raw event that is not skipped, in the order of the file *)
NormalizeAll(data, source) ==
    LET kept == SelectSeq(data, Keeps)
    IN  [i \in 1..Len(kept) |-> MakeRecord(kept[i], source)]

(* for file in matching: for entry in data: ... records.append(record) *)
RECURSIVE LoadRecords(_)
LoadRecords(fs) ==
    IF fs = << >> THEN << >>
    ELSE NormalizeAll(Head(fs).data, Head(fs).name) \o LoadRecords(Tail(fs))

(* jsons = list(folder.glob(...)) *)
GlobFiles(fs) == SelectSeq(fs, LAMBDA f : GlobMatches(f.name))

(* streaming_files = [f for f in zip_file.namelist() if ...] *)
ZipFiles(fs) == SelectSeq(fs, LAMBDA f : ZipMatches(f.name))

----------------------------------------------------------------------------
(* Folder export: src/processJsons.py                                      *)

(* the sort key: datetime.fromisoformat(x['timestamp'].replace('Z', '+00:00')) *)
SortKey(record) == ReplaceZ(record.timestamp)

(* list.sort(key=...) is stable: the records of the earliest instant in
   their order in the list, then those of the next instant, and so on *)
RECURSIVE SortByInstants(_, _)
SortByInstants(records, instants) ==
    IF instants = {} THEN << >>
    ELSE LET t == CHOOSE x \in instants : \A y \in instants : x <= y
         IN  SelectSeq(records, LAMBDA r : Instant(SortKey(r)) = t)
             \o SortByInstants(records, instants \ {t})

SortByTimestamp(records) ==
    SortByInstants(records, {Instant(SortKey(records[i])) : i \in 1..Len(records)})

(* csv.DictWriter.writerow: None is written as the empty string, anything
   else as str(value); the timestamp string is written as it is *)
CsvText(v) == IF v = None THEN "" ELSE v
CsvNum(v) == IF v = Absent THEN "" ELSE ToString(v[1])
CsvBool(v) == IF v = Absent THEN "" ELSE IF v[1] THEN "True" ELSE "False"

CsvRow(r) ==
    [timestamp      |-> r.timestamp,
     platform       |-> CsvText(r.platform),
     ms_played      |-> CsvNum(r.ms_played),
     track_name     |-> CsvText(r.track_name),
     artist         |-> CsvText(r.artist),
     album          |-> CsvText(r.album),
     spotify_uri    |-> CsvText(r.spotify_uri),
     skipped        |-> CsvBool(r.skipped),
     shuffle        |-> CsvBool(r.shuffle),
     offline        |-> CsvBool(r.offline),
     incognito_mode |-> CsvBool(r.incognito_mode),
     source_file    |-> r.source_file]

WriteCsv(records) == [i \in 1..Len(records) |-> CsvRow(records[i])]

(* year = datetime.fromisoformat(record['timestamp'].replace('Z', '+00:00')).year *)
RecordYear(record) == YearOf(ReplaceZ(record.timestamp))

(* records_by_year: a list per year, filled in one pass over the sorted
   records *)
(* the partition with a year's list overwritten instead of extended *)
RecordsByYear_Overwrite(records) ==
    [year \in {RecordYear(records[i]) : i \in 1..Len(records)} |->
        LET of_year == SelectSeq(records, LAMBDA r : RecordYear(r) = year)
        IN  <<of_year[Len(of_year)]>>]

RecordsByYear(records) ==
    [year \in {RecordYear(records[i]) : i \in 1..Len(records)} |->
        SelectSeq(records, LAMBDA r : RecordYear(r) = year)]

(* records: the list as the loading loops leave it; sorted: the list after
   records.sort; combined, yearly: the rows written to the CSV files *)
NotRun == [status |-> "idle", records |-> << >>, sorted |-> << >>,
           combined_written |-> FALSE, combined |-> << >>,
           years |-> {}, yearly |-> << >>]

(* process_spotify_history_combined_and_split: the whole script.  The sort
   raises ValueError on a timestamp that is not ISO-8601, before any file is
   opened for writing. *)
FolderResult(fs) ==
    LET jsons == GlobFiles(fs)
        records == LoadRecords(jsons)
        sorted == SortByTimestamp(records)
        by_year == RecordsByYear(sorted)
    IN  IF \E i \in 1..Len(records) : ~Parseable(SortKey(records[i]))
        THEN [NotRun EXCEPT !.status = "raised", !.records = records]
        ELSE [status |-> "done",
              records |-> records,
              sorted |-> sorted,
              combined_written |-> TRUE,
              combined |-> WriteCsv(sorted),
              years |-> DOMAIN by_year,
              yearly |-> [y \in DOMAIN by_year |-> WriteCsv(by_year[y])]]


----------------------------------------------------------------------------
(* ZIP upload: src/streamlit_app.py, process_spotify_zip                   *)

MsPerHour == 1000 * 60 * 60

(* df['ms_played'] / (1000 * 60 * 60); NaN stays NaN *)
HoursPlayed(ms) ==
    IF ms = Absent THEN Absent ELSE Some([num |-> ms[1], den |-> MsPerHour])

(* a row of the DataFrame: the record with the parsed timestamp and the
   three derived columns *)
FrameRow(r) ==
    LET t == ReplaceZ(r.timestamp) IN
    [timestamp      |-> t,
     platform       |-> r.platform,
     ms_played      |-> r.ms_played,
     track_name     |-> r.track_name,
     artist         |-> r.artist,
     album          |-> r.album,
     spotify_uri    |-> r.spotify_uri,
     skipped        |-> r.skipped,
     shuffle        |-> r.shuffle,
     offline        |-> r.offline,
     incognito_mode |-> r.incognito_mode,
     source_file    |-> r.source_file,
     hours_played   |-> HoursPlayed(r.ms_played),
     date           |-> DateOf(t),
     month          |-> MonthOf(t)]

MakeFrame(records) == [i \in 1..Len(records) |-> FrameRow(records[i])]

(* What makes the DataFrame construction raise:
     - pd.to_datetime on a string that is not a timestamp (ValueError);
     - timestamps with different offsets do not form a datetime column, so
       .dt.date fails;
     - a ms_played column holding nothing but None has dtype object, and
       None / 3600000 is a TypeError.                                      *)
FrameRaises(records) ==
    \/ \E i \in 1..Len(records) : ~Parseable(ReplaceZ(records[i].timestamp))
    \/ Cardinality({ReplaceZ(records[i].timestamp).off : i \in 1..Len(records)}) > 1
    \/ \A i \in 1..Len(records) : records[i].ms_played = Absent

(* process_spotify_zip: None with one of two st.error messages, an
   exception, or the DataFrame in discovery order; records is the list the
   loading loops built *)
ProcessSpotifyZip(fs) ==
    LET streaming_files == ZipFiles(fs)
        records == LoadRecords(streaming_files)
    IN  IF streaming_files = << >>
        THEN [status |-> "no_files", records |-> << >>, df |-> << >>]
        ELSE IF records = << >>
        THEN [status |-> "no_records", records |-> << >>, df |-> << >>]
        ELSE IF FrameRaises(records)
        THEN [status |-> "raised", records |-> records, df |-> << >>]
        ELSE [status |-> "ok", records |-> records, df |-> MakeFrame(records)]

----------------------------------------------------------------------------
(* Aggregation: src/streamlit_app.py, calculate_metrics                    *)

(* the text values of the model in their string order; groupby sorts its
   group keys *)
Lexicon == <<"Band (UK)", "Song - Live", "album", "android", "artist 1", "artist 2", "artist 3",
             "track 1", "track 2", "track 3", "track 4", "uri">>

TextRank(t) == CHOOSE i \in 1..Len(Lexicon) : Lexicon[i] = t
PairRank(p) == TextRank(p[1]) * (Len(Lexicon) + 1) + TextRank(p[2])

(* the keys of a finite set of <<rank, key>> in ascending order of rank *)
RECURSIVE SortTagged(_)
SortTagged(S) ==
    IF S = {} THEN << >>
    ELSE LET m == CHOOSE x \in S : \A y \in S : x[1] <= y[1]
         IN  <<m[2]>> \o SortTagged(S \ {m})

(* stable descending order of a sequence of <<value, item>> *)
RECURSIVE InsertDesc(_, _)
InsertDesc(sorted, x) ==
    IF sorted = << >> THEN <<x>>
    ELSE IF x[1] > Head(sorted)[1]
         THEN <<x>> \o sorted
         ELSE <<Head(sorted)>> \o InsertDesc(Tail(sorted), x)

RECURSIVE SortDesc(_)
SortDesc(tagged) ==
    IF tagged = << >> THEN << >>
    ELSE InsertDesc(SortDesc(SubSeq(tagged, 1, Len(tagged) - 1)),
                    tagged[Len(tagged)])

(* the first n items in the order they come in, .head(n) *)
NLargest_Head(n, tagged) ==
    LET k == IF Len(tagged) < n THEN Len(tagged) ELSE n
    IN  [i \in 1..k |-> tagged[i][2]]

(* .nlargest(n) of a sequence of <<value, item>>: the n items of greatest
   value in descending order, keep='first' *)
NLargest(n, tagged) ==
    LET sorted == SortDesc(tagged)
        k == IF Len(sorted) < n THEN Len(sorted) ELSE n
    IN  [i \in 1..k |-> sorted[i][2]]

(* Series.sum() of a column of optional numbers: NaN is skipped, the empty
   sum is 0 *)
RECURSIVE SumMsOf(_, _, _)
SumMsOf(rows, lo, hi) ==
    IF lo > hi THEN 0
    ELSE IF lo = hi
    THEN (IF rows[lo].ms_played = Absent THEN 0 ELSE rows[lo].ms_played[1])
    ELSE SumMsOf(rows, lo, (lo + hi) \div 2) + SumMsOf(rows, (lo + hi) \div 2 + 1, hi)

SumMs(rows) == SumMsOf(rows, 1, Len(rows))

(* df['hours_played'].sum(): the fractions share their denominator *)
SumHours(rows) ==
    LET present == SelectSeq(rows, LAMBDA r : r.hours_played # Absent)
    IN  [num |-> SumMs(present), den |-> MsPerHour]

(* .nunique(): the distinct values, None not counted *)
NUnique(values) == Cardinality(values \ {None})

(* df.groupby(key)['hours_played'].sum(): one entry per key in key order;
   rows whose key has a None are in no group *)
HoursByArtist(rows) ==
    LET keys == {rows[i].artist : i \in 1..Len(rows)} \ {None}
        order == SortTagged({<<TextRank(k), k>> : k \in keys})
    IN  [i \in 1..Len(order) |->
            [key |-> order[i],
             hours |-> SumHours(SelectSeq(rows, LAMBDA r : r.artist = order[i]))]]

TrackKey(r) == <<r.track_name, r.artist>>
HasTrackKey(r) == r.track_name # None /\ r.artist # None

HoursByTrack(rows) ==
    LET keyed == SelectSeq(rows, HasTrackKey)
        keys == {TrackKey(keyed[i]) : i \in 1..Len(keyed)}
        order == SortTagged({<<PairRank(k), k>> : k \in keys})
    IN  [i \in 1..Len(order) |->
            [key |-> order[i],
             hours |-> SumHours(SelectSeq(keyed, LAMBDA r : TrackKey(r) = order[i]))]]

HoursByMonth(rows) ==
    LET keys == {rows[i].month : i \in 1..Len(rows)}
        order == SortTagged({<<k, k>> : k \in keys})
    IN  [i \in 1..Len(order) |->
            [key |-> order[i],
             hours |-> SumHours(SelectSeq(rows, LAMBDA r : r.month = order[i]))]]

TopN == 10
SkipThreshold == 15000
MinSkips == 3

(* df['ms_played'] < 15000: a comparison with NaN is False *)
IsSkipped(r) == r.ms_played # Absent /\ r.ms_played[1] < SkipThreshold

(* df[df['is_skipped']].groupby(['track_name', 'artist']).agg(count, mean) *)
SkippedTracks(rows) ==
    LET skipped == SelectSeq(rows, LAMBDA r : IsSkipped(r) /\ HasTrackKey(r))
        keys == {TrackKey(skipped[i]) : i \in 1..Len(skipped)}
        order == SortTagged({<<PairRank(k), k>> : k \in keys})
    IN  [i \in 1..Len(order) |->
            LET plays == SelectSeq(skipped, LAMBDA r : TrackKey(r) = order[i])
            IN  [key |-> order[i],
                 skip_count |-> Len(plays),
                 avg_listen_time_ms |-> [num |-> SumMs(plays), den |-> Len(plays)]]]

(* the filter letting groups of two skips through *)
FrequentlyPlayed_Two(groups) == SelectSeq(groups, LAMBDA g : g.skip_count >= 2)

(* skipped_tracks[skipped_tracks['skip_count'] >= 3] *)
FrequentlyPlayed(groups) == SelectSeq(groups, LAMBDA g : g.skip_count >= MinSkips)

MostSkipped(rows) ==
    LET frequently_played == FrequentlyPlayed(SkippedTracks(rows))
    IN  NLargest(TopN, [i \in 1..Len(frequently_played) |->
                          <<frequently_played[i].skip_count, frequently_played[i]>>])

(* a Series of summed hours as <<value, item>>; the sums share their
   denominator and compare by their numerators *)
ByHours(groups) == [i \in 1..Len(groups) |-> <<groups[i].hours.num, groups[i]>>]

CalculateMetrics(rows) ==
    [total_hours       |-> SumHours(rows),
     total_tracks      |-> Len(rows),
     unique_artists    |-> NUnique({rows[i].artist : i \in 1..Len(rows)}),
     unique_tracks     |-> NUnique({rows[i].track_name : i \in 1..Len(rows)}),
     top_artists       |-> NLargest(TopN, ByHours(HoursByArtist(rows))),
     top_tracks        |-> NLargest(TopN, ByHours(HoursByTrack(rows))),
     monthly_listening |-> HoursByMonth(rows),
     most_skipped      |-> MostSkipped(rows)]

----------------------------------------------------------------------------
(* The page: src/streamlit_app.py, main.  Streamlit runs main() from the
   top on the upload and again on every change of the date widget.         *)

MinOf(S) == CHOOSE x \in S : \A y \in S : x <= y
MaxOf(S) == CHOOSE x \in S : \A y \in S : y <= x

Dates(df) == {df[i].date : i \in 1..Len(df)}

(* value=(df['date'].min(), df['date'].max()) *)
DefaultRange(df) == <<MinOf(Dates(df)), MaxOf(Dates(df))>>

(* mask = (df['date'] >= date_range[0]) & (df['date'] <= date_range[1]) *)
(* the mask with the end date excluded *)
InRange_EndExclusive(row, date_range) ==
    row.date >= date_range[1] /\ row.date < date_range[2]

InRange(row, date_range) == row.date >= date_range[1] /\ row.date <= date_range[2]

FilterByDate(df, date_range) == SelectSeq(df, LAMBDA row : InRange(row, date_range))

NoMetrics == CalculateMetrics(<< >>)

Idle == [status |-> "idle", records |-> << >>, df |-> << >>, metrics |-> NoMetrics,
         widget |-> << >>, date_range |-> << >>, df_filtered |-> << >>,
         metrics_filtered |-> NoMetrics, view |-> "instructions"]

(* main() computing the filtered metrics from the unfiltered frame *)
Main_MetricsOfAll(fs, widget) ==
    LET loaded == ProcessSpotifyZip(fs)
        df == loaded.df
        metrics == CalculateMetrics(df)
        date_range == IF widget = << >> THEN DefaultRange(df) ELSE widget
        df_filtered == IF Len(date_range) = 2 THEN FilterByDate(df, date_range)
                       ELSE df
        metrics_filtered == IF Len(date_range) = 2 THEN CalculateMetrics(df)
                            ELSE metrics
    IN  IF loaded.status = "raised"
        THEN [Idle EXCEPT !.status = "raised", !.records = loaded.records,
                          !.view = "traceback"]
        ELSE IF loaded.status # "ok"
        THEN [Idle EXCEPT !.status = loaded.status, !.view = "error"]
        ELSE [status |-> "ok", records |-> loaded.records, df |-> df, metrics |-> metrics,
              widget |-> widget, date_range |-> date_range, df_filtered |-> df_filtered,
              metrics_filtered |-> metrics_filtered,
              view |-> IF df_filtered # << >> THEN "dashboard" ELSE "no_data"]

(* one run of main() on the uploaded file; widget is the value the date
   widget holds, << >> while it still shows its default *)
Main(fs, widget) ==
    LET loaded == ProcessSpotifyZip(fs)
        df == loaded.df
        metrics == CalculateMetrics(df)
        date_range == IF widget = << >> THEN DefaultRange(df) ELSE widget
        df_filtered == IF Len(date_range) = 2 THEN FilterByDate(df, date_range)
                       ELSE df
        metrics_filtered == IF Len(date_range) = 2 THEN CalculateMetrics(df_filtered)
                            ELSE metrics
    IN  IF loaded.status = "raised"
        THEN [Idle EXCEPT !.status = "raised", !.records = loaded.records,
                          !.view = "traceback"]
        ELSE IF loaded.status # "ok"
        THEN [Idle EXCEPT !.status = loaded.status, !.view = "error"]
        ELSE [status |-> "ok", records |-> loaded.records, df |-> df, metrics |-> metrics,
              widget |-> widget, date_range |-> date_range, df_filtered |-> df_filtered,
              metrics_filtered |-> metrics_filtered,
              view |-> IF df_filtered # << >> THEN "dashboard" ELSE "no_data"]

----------------------------------------------------------------------------
(* The dashboard: src/streamlit_app.py, show_dashboard and                 *)
(* show_track_forensics.  Streamlit runs main() again on every change of a *)
(* select box, with the other widgets keeping their values.                *)

Dash == " - "
Paren == " ("

(* a name as the tuple of its pieces and of the separators " - " and " ("
   it holds; a name holding neither is one piece *)
NameTokens(name) ==
    IF name = "Song - Live" THEN <<"Song", Dash, "Live">>
    ELSE IF name = "Band (UK)" THEN <<"Band", Paren, "UK)">>
    ELSE <<name>>

(* f"{row['track_name']} - {row['artist']} ({row['play_count']} plays)" *)
Label(track_name, artist, play_count) ==
    NameTokens(track_name) \o <<Dash>> \o NameTokens(artist)
        \o <<Paren, ToString(play_count), " plays)">>

(* str.split(sep): the pieces between the occurrences of sep *)
RECURSIVE SplitOn(_, _)
SplitOn(text, sep) ==
    IF \A i \in 1..Len(text) : text[i] # sep THEN <<text>>
    ELSE LET first == CHOOSE k \in 1..Len(text) :
                         text[k] = sep /\ \A j \in 1..(k - 1) : text[j] # sep
         IN  <<SubSeq(text, 1, first - 1)>>
             \o SplitOn(SubSeq(text, first + 1, Len(text)), sep)

(* df.groupby('platform'): the group keys, None in no group *)
Platforms(rows) == {rows[i].platform : i \in 1..Len(rows)} \ {None}

(* artist_df.groupby('track_name')['hours_played'].sum() *)
HoursByTrackName(rows) ==
    LET keys == {rows[i].track_name : i \in 1..Len(rows)} \ {None}
        order == SortTagged({<<TextRank(k), k>> : k \in keys})
    IN  [i \in 1..Len(order) |->
            [key |-> order[i],
             hours |-> SumHours(SelectSeq(rows, LAMBDA r : r.track_name = order[i]))]]

(* df.groupby(['track_name', 'artist']).agg({'timestamp': 'count',
   'hours_played': 'sum'}), one row per group in key order *)
PlayCounts(rows) ==
    LET keyed == SelectSeq(rows, HasTrackKey)
        keys == {TrackKey(keyed[i]) : i \in 1..Len(keyed)}
        order == SortTagged({<<PairRank(k), k>> : k \in keys})
    IN  [i \in 1..Len(order) |->
            LET plays == SelectSeq(keyed, LAMBDA r : TrackKey(r) = order[i])
            IN  [key |-> order[i], play_count |-> Len(plays),
                 hours_played |-> SumHours(plays)]]

MinPlays == 2
MaxOptions == 100

(* track_play_counts.sort_values('play_count', ascending=False) *)
SortByPlayCount(counts) ==
    NLargest(Len(counts), [i \in 1..Len(counts) |-> <<counts[i].play_count, counts[i]>>])

TrackPlayCounts(rows) == SortByPlayCount(PlayCounts(rows))

(* track_play_counts[track_play_counts['play_count'] >= 2] *)
AtLeastTwoPlays(groups) == SelectSeq(groups, LAMBDA g : g.play_count >= MinPlays)

(* .head(100) *)
FirstOptions(groups) ==
    SubSeq(groups, 1, IF Len(groups) < MaxOptions THEN Len(groups) ELSE MaxOptions)

ForensicsTracks(rows) == FirstOptions(AtLeastTwoPlays(TrackPlayCounts(rows)))

(* one label per offered group *)
Labels(offered) ==
    [i \in 1..Len(offered) |->
        Label(offered[i].key[1], offered[i].key[2], offered[i].play_count)]

TrackOptions(rows) == Labels(ForensicsTracks(rows))

(* track_info = selected_track_option.split(" - ") *)
SelectedTrackName(option) == SplitOn(option, Dash)[1]

(* track_info[1].split(" (")[0] *)
SelectedArtist(option) == SplitOn(SplitOn(option, Dash)[2], Paren)[1]

(* df[(df['track_name'] == selected_track_name) & (df['artist'] == selected_artist)] *)
TrackData(rows, selected_track_name, selected_artist) ==
    SelectSeq(rows, LAMBDA r : /\ HasTrackKey(r)
                               /\ NameTokens(r.track_name) = selected_track_name
                               /\ NameTokens(r.artist) = selected_artist)

(* the skip rate taken over the plays that were not skipped *)
ShowTrackForensics_RateOfListened(track_data) ==
    LET skip_count == Len(SelectSeq(track_data, IsSkipped))
        total_plays == Len(track_data) - skip_count
    IN  [total_time  |-> SumHours(track_data),
         skip_count  |-> skip_count,
         skip_rate   |-> IF total_plays > 0
                         THEN [num |-> skip_count * 100, den |-> total_plays]
                         ELSE [num |-> 0, den |-> 1],
         total_plays |-> total_plays]

(* show_track_forensics, the key metrics: skip_rate is the exact fraction
   skip_count * 100 / len(track_data); total_plays is reassigned to the
   plays that were not skipped *)
ShowTrackForensics(track_data) ==
    LET total_plays == Len(track_data)
        skip_count == Len(SelectSeq(track_data, IsSkipped))
    IN  [total_time  |-> SumHours(track_data),
         skip_count  |-> skip_count,
         skip_rate   |-> IF total_plays > 0
                         THEN [num |-> skip_count * 100, den |-> total_plays]
                         ELSE [num |-> 0, den |-> 1],
         total_plays |-> Len(track_data) - skip_count]

NoForensics == [total_time |-> [num |-> 0, den |-> MsPerHour], skip_count |-> 0,
                skip_rate |-> [num |-> 0, den |-> 1], total_plays |-> 0]

NoPanel == [status |-> "none", artist_choice |-> 1, track_choice |-> 1,
            selected_artist |-> None, artist_top_songs |-> << >>,
            track_options |-> << >>, selected_track_option |-> << >>,
            track_data |-> << >>, forensics_shown |-> FALSE,
            forensics |-> NoForensics]

(* st.selectbox: the option at the chosen position, None without options *)
SelectedOption(options, choice) ==
    IF options = << >> THEN << >> ELSE options[choice]

SelectedTopArtist(top_artists, choice) ==
    IF top_artists = << >> THEN None ELSE top_artists[choice].key

(* if selected_artist: the top songs of the rows of that artist *)
ArtistTopSongs(df, selected_artist) ==
    IF selected_artist = None THEN << >>
    ELSE NLargest(TopN, ByHours(HoursByTrackName(
             SelectSeq(df, LAMBDA r : r.artist = selected_artist))))

(* if selected_track_option: the rows of the recovered pair *)
TrackDataOf(df, option) ==
    IF option = << >> THEN << >>
    ELSE TrackData(df, SelectedTrackName(option), SelectedArtist(option))

(* if not track_data.empty: show_track_forensics(track_data, ...) *)
ForensicsOf(track_data) ==
    IF track_data # << >> THEN ShowTrackForensics(track_data) ELSE NoForensics

(* what the two sections draw for the selected artist and the selected
   option *)
Sections(artist_choice, track_choice, selected_artist, artist_top_songs, track_options, selected_track_option, track_data) ==
    [status |-> "shown",
     artist_choice |-> artist_choice,
     track_choice |-> track_choice,
     selected_artist |-> selected_artist,
     artist_top_songs |-> artist_top_songs,
     track_options |-> track_options,
     selected_track_option |-> selected_track_option,
     track_data |-> track_data,
     forensics_shown |-> track_data # << >>,
     forensics |-> ForensicsOf(track_data)]

(* the artist deep dive and the track forensics for the selected artist and
   option *)
DeepDive(df, artist_choice, track_choice, selected_artist, track_options, selected_track_option) ==
    Sections(artist_choice, track_choice, selected_artist,
             ArtistTopSongs(df, selected_artist), track_options,
             selected_track_option, TrackDataOf(df, selected_track_option))

(* the two select boxes with their options *)
SelectBoxes(df, artist_choice, track_choice, top_artists, track_options) ==
    DeepDive(df, artist_choice, track_choice,
             SelectedTopArtist(top_artists, artist_choice), track_options,
             SelectedOption(track_options, track_choice))

(* show_dashboard(df, metrics) with the two select boxes at the given
   positions, 1 being the default.  platform_data.index[0] raises
   IndexError when no row has a platform; nothing below it is drawn then. *)
ShowDashboard(df, metrics, artist_choice, track_choice) ==
    IF Platforms(df) = {}
    THEN [NoPanel EXCEPT !.status = "raised"]
    ELSE SelectBoxes(df, artist_choice, track_choice, metrics.top_artists,
                     TrackOptions(df))

(* main() calls show_dashboard only when the filtered frame is not empty *)
PanelOf(a, artist_choice, track_choice) ==
    IF a.view = "dashboard"
    THEN ShowDashboard(a.df_filtered, a.metrics_filtered, artist_choice, track_choice)
    ELSE NoPanel

----------------------------------------------------------------------------
(* Actions                                                                 *)

(* The folder script and the page are two programs; a behaviour is one run
   of one of them on the input.                                            *)
Fresh == folder.status = "idle" /\ app.status = "idle"

(* the file is uploaded: first run, the date widget shows its default.
   The select boxes of the dashboard show their first option on the upload
   and after a change of the date widget. *)
Upload ==
    /\ Fresh
    /\ app' = Main(files, << >>)
    /\ panel' = PanelOf(app', 1, 1)
    /\ UNCHANGED <<files, folder>>

(* the user picks a range inside [min_value, max_value] *)
PickRange ==
    /\ app.status = "ok"
    /\ \E a, b \in MinOf(Dates(app.df))..MaxOf(Dates(app.df)) :
          /\ a <= b
          /\ app' = Main(files, <<a, b>>)
    /\ panel' = PanelOf(app', 1, 1)
    /\ UNCHANGED <<files, folder>>

(* the user has clicked the first date of a range only: a 1-tuple *)
PickStart ==
    /\ app.status = "ok"
    /\ \E a \in MinOf(Dates(app.df))..MaxOf(Dates(app.df)) :
          app' = Main(files, <<a>>)
    /\ panel' = PanelOf(app', 1, 1)
    /\ UNCHANGED <<files, folder>>

(* python processJsons.py *)
FolderExport ==
    /\ Fresh
    /\ folder' = FolderResult(files)
    /\ UNCHANGED <<files, app, panel>>

Next == Upload \/ PickRange \/ PickStart \/ FolderExport

(* the user picks another of the top artists in the deep-dive select box *)
PickArtist ==
    /\ panel.status = "shown"
    /\ \E k \in 1..Len(app.metrics_filtered.top_artists) :
          panel' = PanelOf(app, k, panel.track_choice)
    /\ UNCHANGED <<files, folder, app>>

(* the user picks another option of the track forensics select box *)
PickTrack ==
    /\ panel.status = "shown"
    /\ \E k \in 1..Len(panel.track_options) :
          panel' = PanelOf(app, panel.artist_choice, k)
    /\ UNCHANGED <<files, folder, app>>

(* the page with its select boxes operated *)
NextTrack == Next \/ PickArtist \/ PickTrack

----------------------------------------------------------------------------
(* Inputs                                                                  *)

Entry(ts, ms, track, artist, rest) ==
    [ts |-> ts, ms_played |-> ms,
     master_metadata_track_name |-> track,
     master_metadata_album_artist_name |-> artist,
     platform |-> rest.platform,
     master_metadata_album_album_name |-> rest.album,
     spotify_track_uri |-> rest.uri,
     skipped |-> rest.skipped, shuffle |-> rest.shuffle,
     offline |-> rest.offline, incognito_mode |-> rest.incognito_mode]

(* every optional field null *)
Nulls == [platform |-> None, album |-> None, uri |-> None, skipped |-> Absent,
          shuffle |-> Absent, offline |-> Absent, incognito_mode |-> Absent]
(* every optional field set *)
Filled == [platform |-> "android", album |-> "album", uri |-> "uri",
           skipped |-> Some(TRUE), shuffle |-> Some(FALSE),
           offline |-> Some(TRUE), incognito_mode |-> Some(FALSE)]

Export2020 == <<Marker, "2020", JsonExt>>            \* found by both loaders
Export2021 == <<Marker, "2021", JsonExt>>            \* found by both loaders
Nested2021 == <<"MyData/", Marker, "2021", JsonExt>> \* found in a ZIP only
ReadMe == <<Marker, "notes", ".txt">>                \* found by neither

(* the ways to cut n entries into k consecutive sources *)
Cuts(k, n) ==
    IF k = 0 THEN (IF n = 0 THEN {<< >>} ELSE {})
    ELSE {c \in [1..k -> 0..n] :
             /\ c[k] = n
             /\ \A i \in 1..(k - 1) : c[i] <= c[i + 1]}

Split(flat, cuts, names) ==
    [i \in 1..Len(names) |->
        [name |-> names[i],
         data |-> SubSeq(flat, (IF i = 1 THEN 0 ELSE cuts[i - 1]) + 1, cuts[i])]]

(* sources in a folder or a ZIP have distinct names *)
NameLists(names) ==
    {l \in SeqsUpTo(names, MaxSources) :
        \A i, j \in 1..Len(l) : i # j => l[i] # l[j]}

(* the input is some sources with names of names holding, together, at
   most maxEntries events of events *)
InputOf(events, names, maxEntries) ==
    \E l \in NameLists(names) :
        \E flat \in SeqsUpTo(events, maxEntries) :
            \E c \in Cuts(Len(l), Len(flat)) :
                files = Split(flat, c, l)

(* raw events for the loading model: every validity case of ts and
   ms_played *)
LoadEvents ==
    {Entry(Zulu(1), Absent, "track 1", "artist 1", Filled),
     Entry(Zulu(1), Some(0), None, None, Nulls),
     Entry(Zulu(1), Some(MsLimit), "track 1", "artist 1", Filled),
     Entry(Zulu(1), Some(MsLimit + 1), "track 1", "artist 1", Filled),
     Entry(NoTs, Some(0), "track 2", "artist 2", Filled),
     Entry(EmptyTs, Some(0), "track 2", "artist 2", Filled),
     Entry(BadTs, Some(0), "track 2", "artist 2", Filled)}

(* raw events for the ordering model: valid events around a year boundary,
   two of them the same instant written differently, and a day without
   events *)
OrderEvents ==
    {Entry(ts, Some(1000), "track 1", "artist 1", Filled) :
        ts \in {Zulu(SlotsPerYear - 1),
                Zulu(SlotsPerYear), Offs(SlotsPerYear, 1),
                Zulu(SlotsPerYear + 2 * SlotsPerDay),
                Offs(SlotsPerYear + 2 * SlotsPerDay + 1, 1)}}

(* inputs for the aggregation model: one source, the plays of one
   (track, artist) pair after the other; every pair has the plays of a
   default pattern but for at most MaxDeviate pairs *)
AggKeys ==
    <<<<"track 1", "artist 1">>, <<"track 1", "artist 2">>, <<"track 1", "artist 3">>,
      <<"track 2", "artist 1">>, <<"track 2", "artist 2">>, <<"track 2", "artist 3">>,
      <<"track 3", "artist 1">>, <<"track 3", "artist 2">>, <<"track 3", "artist 3">>,
      <<"track 4", "artist 1">>, <<"track 4", "artist 2">>>>

Patterns ==
    {<<Some(1000), Some(SkipThreshold - 1), Some(SkipThreshold)>>,
     <<Some(0), Some(SkipThreshold - 1), Absent, Some(2000)>>,
     <<Some(1000), Some(2000), Some(3000), Some(4000), Some(20000)>>}

Shapes ==
    UNION {UNION {{[i \in 1..Len(AggKeys) |-> IF i \in D THEN a[i] ELSE d] :
                      a \in [D -> Patterns \ {d}]} :
                  D \in {D \in SUBSET (1..Len(AggKeys)) : Cardinality(D) <= MaxDeviate}} :
           d \in Patterns}

RECURSIVE AggEntries(_, _)
AggEntries(shape, i) ==
    IF i > Len(AggKeys) THEN << >>
    ELSE [j \in 1..Len(shape[i]) |->
             Entry(Zulu(IF j % 2 = 1 THEN 0 ELSE SlotsPerDay), shape[i][j],
                   AggKeys[i][1], AggKeys[i][2], Filled)]
         \o AggEntries(shape, i + 1)

InitLoad ==
    /\ InputOf(LoadEvents, {Export2020, Nested2021, ReadMe}, MaxEntries)
    /\ folder = NotRun
    /\ app = Idle
    /\ panel = NoPanel

InitOrder ==
    /\ InputOf(OrderEvents, {Export2020, Export2021}, MaxPlays)
    /\ folder = NotRun
    /\ app = Idle
    /\ panel = NoPanel

InitAgg ==
    /\ \E shape \in Shapes :
          files = <<[name |-> Export2020, data |-> AggEntries(shape, 1)]>>
    /\ folder = NotRun
    /\ app = Idle
    /\ panel = NoPanel

(* plays of one track with a listening time under, at and without the skip
   threshold, and of two tracks whose name or artist holds a separator of
   the selector's label; one day, every optional field set *)
TrackEvents ==
    {Entry(Zulu(0), Some(1000), "track 1", "artist 1", Filled),
     Entry(Zulu(0), Some(SkipThreshold), "track 1", "artist 1", Filled),
     Entry(Zulu(0), Absent, "track 1", "artist 1", Filled),
     Entry(Zulu(0), Some(1000), "Song - Live", "artist 1", Filled),
     Entry(Zulu(0), Some(20000), "track 1", "Band (UK)", Filled)}

InitTrack ==
    /\ \E n \in 1..MaxTrackPlays : \E data \in [1..n -> TrackEvents] :
          files = <<[name |-> Export2020, data |-> data]>>
    /\ folder = NotRun
    /\ app = Idle
    /\ panel = NoPanel

Spec == InitLoad /\ [][Next]_vars
SpecOrder == InitOrder /\ [][Next]_vars
SpecAgg == InitAgg /\ [][Next]_vars
SpecTrack == InitTrack /\ [][NextTrack]_vars

----------------------------------------------------------------------------
(* Properties                                                              *)

GlobSources == {files[k] : k \in {k \in 1..Len(files) : GlobMatches(files[k].name)}}
ZipSources == {files[k] : k \in {k \in 1..Len(files) : ZipMatches(files[k].name)}}
EventsOf(f) == {f.data[i] : i \in 1..Len(f.data)}
From(records, f) == SelectSeq(records, LAMBDA r : r.source_file = f.name)

NoTimestamp(e) == e.ts.form \in {"none", "empty"}
OverAnHour(e) == e.ms_played # Absent /\ e.ms_played[1] > 3600000
Rejected(e) == NoTimestamp(e) \/ OverAnHour(e)

AtMostAnHour(records) ==
    \A i \in 1..Len(records) :
        records[i].ms_played = Absent \/ records[i].ms_played[1] <= 3600000

NothingFromRejected(records) ==
    \A k \in 1..Len(files) :
        Len(From(records, files[k]))
            <= Cardinality({i \in 1..Len(files[k].data) : ~Rejected(files[k].data[i])})

(* C1: an event without ts (missing or empty) or with ms_played above
   3,600,000 yields no record, so no record set of either load path (the
   list the loops build, the sorted list, the DataFrame, a filtered
   selection) holds more records of a source than the source has other
   events, and every ms_played in it is absent or at most 3,600,000. *)
C1_RejectedEventsYieldNoRecord ==
    /\ AtMostAnHour(folder.records) /\ NothingFromRejected(folder.records)
    /\ AtMostAnHour(folder.sorted) /\ NothingFromRejected(folder.sorted)
    /\ AtMostAnHour(app.records) /\ NothingFromRejected(app.records)
    /\ AtMostAnHour(app.df) /\ NothingFromRejected(app.df)
    /\ AtMostAnHour(app.df_filtered) /\ NothingFromRejected(app.df_filtered)

(* the folder export has run on a source holding an event without ts and an
   event over an hour long *)
C1_Witness ==
    /\ folder.status = "done"
    /\ \E f \in GlobSources :
          /\ \E e \in EventsOf(f) : NoTimestamp(e)
          /\ \E e \in EventsOf(f) : OverAnHour(e) /\ ~NoTimestamp(e)

Accepted(e) ==
    /\ ~NoTimestamp(e)
    /\ e.ms_played = Absent \/ e.ms_played[1] <= 3600000

CarriedThrough(e, name, r) ==
    /\ r.platform = e.platform
    /\ r.ms_played = e.ms_played
    /\ r.track_name = e.master_metadata_track_name
    /\ r.artist = e.master_metadata_album_artist_name
    /\ r.album = e.master_metadata_album_album_name
    /\ r.spotify_uri = e.spotify_track_uri
    /\ r.skipped = e.skipped
    /\ r.shuffle = e.shuffle
    /\ r.offline = e.offline
    /\ r.incognito_mode = e.incognito_mode
    /\ r.source_file = name
    /\ e.ms_played = Absent => r.ms_played # Some(0)

OneRecordPerAccepted(records, f) ==
    LET accepted == SelectSeq(f.data, Accepted)
        mine == From(records, f)
    IN  /\ Len(mine) = Len(accepted)
        /\ \A k \in 1..Len(accepted) : CarriedThrough(accepted[k], f.name, mine[k])

(* C2: the loading loops turn every event with a non-empty ts and with
   ms_played absent or at most 3,600,000 into exactly one record, in the
   order of the source, whose fields are the event's fields plus the source
   name; an absent ms_played stays absent.  The rows of the DataFrame carry
   the same fields. *)
C2_AcceptedEventsCarryThrough ==
    /\ folder.status # "idle" =>
          \A f \in GlobSources : OneRecordPerAccepted(folder.records, f)
    /\ app.status \notin {"idle", "no_files"} =>
          \A f \in ZipSources : OneRecordPerAccepted(app.records, f)
    /\ app.status = "ok" =>
          \A f \in ZipSources : OneRecordPerAccepted(app.df, f)

(* a DataFrame is loaded that holds a row without ms_played and a row of
   exactly one hour *)
C2_Witness ==
    /\ app.status = "ok"
    /\ \E i \in 1..Len(app.df) : app.df[i].ms_played = Absent
    /\ \E i \in 1..Len(app.df) : app.df[i].ms_played = Some(3600000)

ValidTimestamp(ts) == ts.form \in {"Z", "off"}

(* C3: every record a load builds has a timestamp that parses, and an event
   whose ts is present but is no timestamp is dropped without failing the
   load: the folder export still completes, and the upload does not raise
   on an input whose valid events would load without it. *)
C3_UnparseableTimestampDropped ==
    /\ \A i \in 1..Len(folder.records) : ValidTimestamp(folder.records[i].timestamp)
    /\ \A i \in 1..Len(app.records) : ValidTimestamp(app.records[i].timestamp)
    /\ folder.status # "raised"
    /\ app.status = "raised" =>
          LET valid == SelectSeq(app.records, LAMBDA r : ValidTimestamp(r.timestamp))
          IN  valid = << >> \/ FrameRaises(valid)

HasMarkerAndExtension(name) ==
    /\ \E i \in 1..Len(name) : name[i] = "Streaming_History_Audio_"
    /\ name # << >> /\ name[Len(name)] = ".json"

NoSourceFound == \A k \in 1..Len(files) : ~HasMarkerAndExtension(files[k].name)
NoValidRecord(sources) ==
    /\ sources # {}
    /\ \A f \in sources : \A e \in EventsOf(f) : Rejected(e)

(* C8: a load that finds no source named *Streaming_History_Audio_*.json
   reports a discovery error, a load whose sources hold no valid record
   reports a different, empty-result error, and neither produces a record
   set or an export file; on both load paths. *)
C8_LoadErrorsReported ==
    /\ (app.status # "idle" /\ NoSourceFound) =>
          app.status = "no_files" /\ app.df = << >> /\ app.view = "error"
    /\ (app.status # "idle" /\ NoValidRecord(ZipSources)) =>
          app.status = "no_records" /\ app.df = << >> /\ app.view = "error"
    /\ (folder.status # "idle" /\ NoSourceFound) =>
          folder.status = "no_files" /\ ~folder.combined_written /\ folder.years = {}
    /\ (folder.status # "idle" /\ NoValidRecord(GlobSources)) =>
          folder.status = "no_records" /\ ~folder.combined_written /\ folder.years = {}

InstantOf(r) == Instant(ReplaceZ(r.timestamp))

Chronological(rows) ==
    \A i \in 1..(Len(rows) - 1) : InstantOf(rows[i]) <= InstantOf(rows[i + 1])

(* out is a rearrangement of in: ascending instants, equal instants in
   their order in in *)
StablySorted(out, in) ==
    /\ Len(out) = Len(in)
    /\ \E p \in {q \in [1..Len(in) -> 1..Len(in)] :
                    \A i, j \in 1..Len(in) : i # j => q[i] # q[j]} :
          /\ \A i \in 1..Len(in) : out[i] = in[p[i]]
          /\ \A i, j \in 1..Len(in) :
                i < j => \/ InstantOf(out[i]) < InstantOf(out[j])
                         \/ InstantOf(out[i]) = InstantOf(out[j]) /\ p[i] < p[j]

FolderOrdered ==
    folder.status = "done" =>
        /\ StablySorted(folder.sorted, folder.records)
        /\ Chronological(folder.combined)
        /\ Len(folder.combined) = Len(folder.sorted)

(* C4: the record set a load returns or exports is in ascending order of
   the instants of its timestamps, records of the same instant in discovery
   order; on both load paths. *)
C4_LoadedSetChronological ==
    /\ FolderOrdered
    /\ app.status = "ok" => StablySorted(app.df, app.df)

RowsIn(rows) == {rows[i] : i \in 1..Len(rows)}

RECURSIVE TotalRows(_, _)
TotalRows(parts, keys) ==
    IF keys = {} THEN 0
    ELSE LET y == CHOOSE k \in keys : TRUE
         IN  Len(parts[y]) + TotalRows(parts, keys \ {y})

(* C5: the yearly files partition the combined file: each row of the
   combined file is in exactly one yearly file, each row of a yearly file
   is a row of the combined file, and the yearly files together have as
   many rows as the combined file. *)
C5_YearsPartitionCombined ==
    folder.status = "done" =>
        /\ \A i \in 1..Len(folder.combined) :
              Cardinality({y \in folder.years :
                              folder.combined[i] \in RowsIn(folder.yearly[y])}) = 1
        /\ \A y \in folder.years : RowsIn(folder.yearly[y]) \subseteq RowsIn(folder.combined)
        /\ TotalRows(folder.yearly, folder.years) = Len(folder.combined)

(* an export of three rows into two yearly files *)
C5_Witness ==
    /\ folder.status = "done"
    /\ Len(folder.combined) >= 3
    /\ Cardinality(folder.years) >= 2

(* the calendar year an instant has in UTC *)
UTCYear(row) == InstantOf(row) \div SlotsPerYear

(* C6: a row is in the yearly file of the calendar year its instant has in
   UTC, and every yearly file is in chronological order. *)
C6_PartitionKeyedByUTCYear ==
    folder.status = "done" =>
        \A y \in folder.years :
            /\ \A j \in 1..Len(folder.yearly[y]) :
                  UTCYear(folder.yearly[y][j]) = y
            /\ Chronological(folder.yearly[y])

CalendarDate(row) == row.timestamp.local \div SlotsPerDay

(* the i of S in ascending order *)
Nth(S, k) == CHOOSE i \in S : Cardinality({j \in S : j < i}) = k - 1

SelectionOf(df, chosen) ==
    [k \in 1..Cardinality(chosen) |-> df[Nth(chosen, k)]]

(* C7: with a date range [start, end] the selection is the rows whose
   timestamp's calendar date d has start <= d <= end, in the order of the
   frame; with the default range it is the whole frame. *)
C7_DateRangeInclusive ==
    app.status = "ok" =>
        /\ Len(app.date_range) = 2 =>
              app.df_filtered =
                  SelectionOf(app.df, {i \in 1..Len(app.df) :
                                          /\ app.date_range[1] <= CalendarDate(app.df[i])
                                          /\ CalendarDate(app.df[i]) <= app.date_range[2]})
        /\ app.widget = << >> =>
              /\ Len(app.date_range) = 2
              /\ \A i \in 1..Len(app.df) :
                    /\ app.date_range[1] <= CalendarDate(app.df[i])
                    /\ CalendarDate(app.df[i]) <= app.date_range[2]
              /\ \E i \in 1..Len(app.df) : app.date_range[1] = CalendarDate(app.df[i])
              /\ \E i \in 1..Len(app.df) : app.date_range[2] = CalendarDate(app.df[i])
              /\ app.df_filtered = app.df

(* a picked range that selects some rows of the frame and leaves others,
   one of them on the end date *)
C7_Witness ==
    /\ app.status = "ok"
    /\ Len(app.widget) = 2
    /\ app.df_filtered # << >>
    /\ Len(app.df_filtered) < Len(app.df)
    /\ \E i \in 1..Len(app.df_filtered) : app.df_filtered[i].date = app.widget[2]

(* C9: on an empty selection every aggregate is computed and is zero or
   empty, and the page shows the no-data state, not a load failure. *)
C9_EmptySelectionAggregates ==
    (app.status # "idle" /\ app.df # << >> /\ app.df_filtered = << >>) =>
        /\ app.status = "ok"
        /\ app.view = "no_data"
        /\ app.metrics_filtered.total_hours.num = 0
        /\ app.metrics_filtered.total_tracks = 0
        /\ app.metrics_filtered.unique_artists = 0
        /\ app.metrics_filtered.unique_tracks = 0
        /\ app.metrics_filtered.top_artists = << >>
        /\ app.metrics_filtered.top_tracks = << >>
        /\ app.metrics_filtered.monthly_listening = << >>
        /\ app.metrics_filtered.most_skipped = << >>

(* a range picked between two days with plays that holds no play *)
C9_Witness ==
    /\ app.status = "ok"
    /\ Len(app.df) >= 2
    /\ Len(app.widget) = 2
    /\ app.df_filtered = << >>

SkippedPlays(rows, key) ==
    {i \in 1..Len(rows) :
        /\ rows[i].track_name = key[1] /\ rows[i].artist = key[2]
        /\ rows[i].ms_played # Absent /\ rows[i].ms_played[1] < 15000}

RECURSIVE TotalMs(_, _)
TotalMs(rows, idx) ==
    IF idx = {} THEN 0
    ELSE LET i == CHOOSE k \in idx : TRUE
         IN  rows[i].ms_played[1] + TotalMs(rows, idx \ {i})

RankingOfSkips(ranking, rows) ==
    /\ Len(ranking) <= 10
    /\ \A k \in 1..Len(ranking) :
          LET plays == SkippedPlays(rows, ranking[k].key)
          IN  /\ Cardinality(plays) >= 3
              /\ ranking[k].skip_count = Cardinality(plays)
              /\ ranking[k].avg_listen_time_ms.num = TotalMs(rows, plays)
              /\ ranking[k].avg_listen_time_ms.den = Cardinality(plays)
    /\ \A k \in 1..(Len(ranking) - 1) : ranking[k].skip_count >= ranking[k + 1].skip_count
    /\ \A j, k \in 1..Len(ranking) : j # k => ranking[j].key # ranking[k].key

(* C10: the most-skipped ranking lists at most 10 (track_name, artist)
   groups, each with at least 3 plays whose ms_played is present and below
   15,000, in descending order of that count, each with that count and
   with the mean ms_played of those plays (their sum over their number). *)
C10_MostSkippedRanking ==
    app.status = "ok" =>
        /\ RankingOfSkips(app.metrics.most_skipped, app.df)
        /\ RankingOfSkips(app.metrics_filtered.most_skipped, app.df_filtered)

(* eleven groups have three skips or more, the ranking lists ten of them,
   not all with the same count *)
C10_Witness ==
    /\ app.status = "ok"
    /\ Len(app.metrics.most_skipped) = 10
    /\ app.metrics.most_skipped[1].skip_count > app.metrics.most_skipped[10].skip_count
    /\ Cardinality({i \in 1..Len(AggKeys) :
                       Cardinality(SkippedPlays(app.df, AggKeys[i])) >= 3}) > 10


(* the plays of a subset that count as skips: ms_played present and under
   the threshold *)
SkipsOf(rows) ==
    Cardinality({i \in 1..Len(rows) :
                    rows[i].ms_played # Absent /\ rows[i].ms_played[1] < 15000})

(* C11: for the non-empty subset of n plays handed to the track forensics,
   k of which have ms_played present and under 15,000 (an absent value and
   exactly 15,000 are not skips), skip_count is k, skip_rate is 100 * k / n
   taken over all n plays and lies in [0, 100], and total_plays is n - k. *)
C11_ForensicsSkipFigures ==
    panel.forensics_shown =>
        LET n == Len(panel.track_data)
            k == SkipsOf(panel.track_data)
            f == panel.forensics
        IN  /\ n > 0
            /\ f.skip_count = k
            /\ f.skip_rate.num * n = 100 * k * f.skip_rate.den
            /\ 0 <= f.skip_rate.num /\ f.skip_rate.num <= 100 * f.skip_rate.den
            /\ f.total_plays = n - k

(* four plays of a track, three of them skips and one of exactly 15,000 ms:
   3 skips, 75 %, 1 play *)
C11_Witness ==
    /\ panel.forensics_shown
    /\ Len(panel.track_data) = 4
    /\ \E i \in 1..4 : panel.track_data[i].ms_played = Some(15000)
    /\ panel.forensics.skip_count = 3
    /\ panel.forensics.skip_rate = [num |-> 300, den |-> 4]
    /\ panel.forensics.total_plays = 1


(* the milliseconds played in the rows of an index set, an absent value
   counting for nothing *)
RECURSIVE MsPlayed(_, _)
MsPlayed(rows, idx) ==
    IF idx = {} THEN 0
    ELSE LET i == CHOOSE k \in idx : TRUE
         IN  (IF rows[i].ms_played = Absent THEN 0 ELSE rows[i].ms_played[1])
             + MsPlayed(rows, idx \ {i})

(* the groups of a frame with the milliseconds played in each: by artist,
   by (track_name, artist), and by track_name within one artist *)
ArtistSums(rows) ==
    [a \in {rows[i].artist : i \in 1..Len(rows)} \ {"None"} |->
        MsPlayed(rows, {i \in 1..Len(rows) : rows[i].artist = a})]

TrackSums(rows) ==
    [p \in {<<rows[i].track_name, rows[i].artist>> :
               i \in {i \in 1..Len(rows) : rows[i].track_name # "None"
                                           /\ rows[i].artist # "None"}} |->
        MsPlayed(rows, {i \in 1..Len(rows) : /\ rows[i].track_name = p[1]
                                              /\ rows[i].artist = p[2]})]

SongSums(rows, artist) ==
    [t \in {rows[i].track_name :
               i \in {i \in 1..Len(rows) : rows[i].artist = artist}} \ {"None"} |->
        MsPlayed(rows, {i \in 1..Len(rows) : /\ rows[i].artist = artist
                                              /\ rows[i].track_name = t})]

(* top is a top-10 of the groups whose played milliseconds are sums *)
IsTopTen(top, sums) ==
    LET returned == {top[i].key : i \in 1..Len(top)}
        omitted == DOMAIN sums \ returned
    IN  /\ Len(top) <= 10
        /\ returned \subseteq DOMAIN sums
        /\ \A i, j \in 1..Len(top) : i # j => top[i].key # top[j].key
        /\ \A i \in 1..Len(top) :
              /\ top[i].hours.num = sums[top[i].key]
              /\ top[i].hours.den = 3600000
        /\ \A i \in 1..(Len(top) - 1) : top[i].hours.num >= top[i + 1].hours.num
        /\ \A k \in omitted : \A i \in 1..Len(top) : sums[k] <= top[i].hours.num
        /\ (\E k \in omitted : sums[k] > 0) =>
              \A i \in 1..Len(top) : top[i].hours.num > 0

(* C12: each top-N ranking by hours (top artists, top tracks by
   (track_name, artist), top songs of the selected artist; N = 10) holds at
   most N groups, each with the summed hours of its records, in descending
   order of the sums; no omitted group has a strictly larger sum than a
   returned one, so no zero-hour group is returned while a group with hours
   is omitted. *)
C12_TopNByHours ==
    /\ app.status = "ok" =>
          /\ IsTopTen(app.metrics.top_artists, ArtistSums(app.df))
          /\ IsTopTen(app.metrics.top_tracks, TrackSums(app.df))
          /\ IsTopTen(app.metrics_filtered.top_artists, ArtistSums(app.df_filtered))
          /\ IsTopTen(app.metrics_filtered.top_tracks, TrackSums(app.df_filtered))
    /\ panel.status = "shown" /\ panel.selected_artist # "None" =>
          IsTopTen(panel.artist_top_songs,
                   SongSums(app.df_filtered, panel.selected_artist))

(* eleven track groups of which ten are returned: over the whole frame the
   first returned group has more hours than the last and is not the first in
   key order; over the selected dates groups without hours are returned
   after the one with hours, and the songs of the selected artist are
   ranked *)
C12_Witness ==
    /\ app.status = "ok" /\ panel.status = "shown"
    /\ Cardinality(DOMAIN TrackSums(app.df)) = 11
    /\ Len(app.metrics.top_tracks) = 10
    /\ app.metrics.top_tracks[1].hours.num > app.metrics.top_tracks[10].hours.num
    /\ \E i \in 2..10 :
          PairRank(app.metrics.top_tracks[i].key) < PairRank(app.metrics.top_tracks[1].key)
    /\ Cardinality(DOMAIN TrackSums(app.df_filtered)) = 11
    /\ Len(app.metrics_filtered.top_tracks) = 10
    /\ app.metrics_filtered.top_tracks[1].hours.num > 0
    /\ app.metrics_filtered.top_tracks[10].hours.num = 0
    /\ Len(panel.artist_top_songs) > 1


(* the plays of a (track_name, artist) group in the order of the frame *)
PlaysOf(rows, key) ==
    SelectSeq(rows, LAMBDA r : r.track_name = key[1] /\ r.artist = key[2])

(* C13: for every track offered in the forensics selector (the groups of at
   least two plays) the (track_name, artist) pair recovered by splitting the
   option's label is the pair of the group, also when a name holds " - " or
   " ("; hence the subset handed to the forensics of the selected option is
   not empty and is exactly the plays of its group. *)
C13_SelectorRecoversPair ==
    panel.status = "shown" =>
        LET offered == ForensicsTracks(app.df_filtered)
        IN  /\ Len(panel.track_options) = Len(offered)
            /\ \A i \in 1..Len(offered) :
                  /\ SelectedTrackName(panel.track_options[i]) = NameTokens(offered[i].key[1])
                  /\ SelectedArtist(panel.track_options[i]) = NameTokens(offered[i].key[2])
            /\ panel.track_options # << >> =>
                  /\ panel.forensics_shown
                  /\ panel.track_data # << >>
                  /\ panel.track_data = PlaysOf(app.df_filtered,
                                                offered[panel.track_choice].key)

====
